---- MODULE Spec2Model ----
(***************************************************************************)
(* State-machine model of the signed-webhook gateway                       *)
(* (src/discord_webhook_app.py) and of the worker executions it triggers.  *)
(* One gateway invocation is modelled statement by statement; the worker   *)
(* executions run in their own execution contexts and interleave freely    *)
(* with the gateway.                                                       *)
(***************************************************************************)
EXTENDS Integers, Sequences, FiniteSets, TLC

\* Number of webhook events delivered to the gateway in one behaviour.
MaxRequests == 2

(***************************************************************************)
(* JSON payloads.  A document records which keys are present, because the  *)
(* code subscripts them (a missing key raises KeyError, an empty options   *)
(* list raises IndexError).                                                *)
(***************************************************************************)
Opt(v) == [hasValue |-> TRUE, value |-> v]

OptNoValue == [hasValue |-> FALSE, value |-> ""]

NoData ==
  [present |-> FALSE, hasName |-> FALSE, name |-> "",
   hasOptions |-> FALSE, options |-> <<>>]

Data(name, opts) ==
  [present |-> TRUE, hasName |-> TRUE, name |-> name,
   hasOptions |-> TRUE, options |-> opts]

DataNoOptions(name) ==
  [present |-> TRUE, hasName |-> TRUE, name |-> name,
   hasOptions |-> FALSE, options |-> <<>>]

DataNoName(opts) ==
  [present |-> TRUE, hasName |-> FALSE, name |-> "",
   hasOptions |-> TRUE, options |-> opts]

Doc(t, d) == [hasType |-> TRUE, type |-> t, data |-> d]

EmptyDoc == [hasType |-> FALSE, type |-> 0, data |-> NoData]

\* Action strings: the three registered choices, a case variant, a prefix.
ActionValues == {"start", "stop", "status", "Start", "sta"}

CommandData ==
  {Data("server", <<Opt(a)>>) : a \in ActionValues}
    \cup {Data("minecraft", <<Opt(a)>>) : a \in {"start", "status"}}
    \cup {Data("server", <<Opt("stop"), Opt("start")>>)}

MalformedData ==
  {NoData, DataNoOptions("server"), DataNoOptions("minecraft"),
   Data("server", <<>>), Data("server", <<OptNoValue>>),
   DataNoName(<<Opt("start")>>)}

Docs ==
  {Doc(1, d) : d \in {NoData, Data("server", <<Opt("start")>>), DataNoOptions("server")}}
    \cup {Doc(2, d) : d \in CommandData \cup MalformedData}
    \cup {Doc(t, d) : t \in {0, 3, 5}, d \in {NoData, Data("server", <<Opt("start")>>)}}
    \cup {EmptyDoc}

(***************************************************************************)
(* Raw request bodies: the text as received.  "json" bodies parse to their *)
(* document; a spaced body carries insignificant whitespace that parsing   *)
(* drops; "text" is not JSON; "none" is an event whose body is null.       *)
(***************************************************************************)
Raw(doc, spaced) == [kind |-> "json", spaced |-> spaced, doc |-> doc]

GarbageBody == [kind |-> "text", spaced |-> FALSE, doc |-> EmptyDoc]

NullBody == [kind |-> "none", spaced |-> FALSE, doc |-> EmptyDoc]

PingBody == Raw(Doc(1, NoData), FALSE)

StartBody == Raw(Doc(2, Data("server", <<Opt("start")>>)), FALSE)

RawBodies ==
  {Raw(d, FALSE) : d \in Docs}
    \cup {Raw(d, TRUE) : d \in {Doc(1, NoData), Doc(2, Data("server", <<Opt("stop")>>))}}
    \cup {GarbageBody, NullBody}

\* json.loads(event['body'])
json_loads(raw) ==
  CASE raw.kind = "json" -> [ok |-> TRUE, exc |-> "", value |-> raw.doc]
    [] raw.kind = "text" -> [ok |-> FALSE, exc |-> "JSONDecodeError", value |-> EmptyDoc]
    [] OTHER -> [ok |-> FALSE, exc |-> "TypeError", value |-> EmptyDoc]

\* json.dumps(value): Python's default separators put a space after ':' and
\* ',', so the text differs from the compact text the platform sends.
json_dumps(doc) == Raw(doc, TRUE)

(***************************************************************************)
(* Signature material.  A signature is a hex string in the header; a       *)
(* well-formed one (64 bytes) was made by some signer over some message.   *)
(* The message is timestamp + body, the concatenation of two strings.      *)
(***************************************************************************)
Timestamp == "1700000000"

OtherTimestamp == "1600000000"

Concat(timestamp, raw) == [timestamp |-> timestamp, body |-> raw]

\* A body other than raw (for a signature replayed from another request).
OtherBody(raw) == IF raw = PingBody THEN StartBody ELSE PingBody

Sig(form, signer, message) == [form |-> form, signer |-> signer, message |-> message]

SigKinds ==
  {"valid", "wrongkey", "otherts", "otherbody", "nonhex", "badlen", "nosig", "nots"}

SignatureOf(kind, raw) ==
  CASE kind = "wrongkey" -> Sig("hex64", "attacker", Concat(Timestamp, raw))
    [] kind = "otherts" -> Sig("hex64", "discord", Concat(OtherTimestamp, raw))
    [] kind = "otherbody" -> Sig("hex64", "discord", Concat(Timestamp, OtherBody(raw)))
    [] kind = "nonhex" -> Sig("nonhex", "attacker", Concat(Timestamp, raw))
    [] kind = "badlen" -> Sig("badlen", "attacker", Concat(Timestamp, raw))
    [] OTHER -> Sig("hex64", "discord", Concat(Timestamp, raw))

\* The event the hosting runtime hands to lambda_handler.
MakeEvent(raw, kind) ==
  [body |-> raw,
   hasSignature |-> kind # "nosig",
   hasTimestamp |-> kind # "nots",
   timestamp |-> Timestamp,
   signature |-> SignatureOf(kind, raw)]

NoEvent == MakeEvent(NullBody, "nosig")

Events == {MakeEvent(raw, k) : raw \in RawBodies, k \in SigKinds}

\* The plaintext of DISCORD_PUBLIC_KEY: the application's key as a hex
\* string, or a misconfigured value (not hex, or not 32 bytes).
Key(form) == [form |-> form, owner |-> "discord"]

NoKey == [form |-> "none", owner |-> ""]

ConfiguredKeys == {Key("hex32"), Key("nonhex"), Key("badlen")}

\* VerifyKey(bytes.fromhex(public_key)): "" when the key object is built.
VerifyKey(public_key) ==
  CASE public_key.form = "hex32" -> ""
    [] public_key.form = "nonhex" -> "ValueError"
    [] OTHER -> "nacl.exceptions.ValueError"

\* A slip: the check is made over the re-serialised payload,
\* timestamp + json.dumps(body), instead of the text received.
SignatureMatches_Reserialized(public_key, message, signature) ==
  /\ signature.signer = public_key.owner
  /\ signature.message =
       Concat(message.timestamp, json_dumps(json_loads(message.body).value))

\* The Ed25519 check itself: the signature was made with the private key of
\* the verify key's owner over exactly this message.
SignatureMatches(public_key, message, signature) ==
  /\ signature.signer = public_key.owner
  /\ signature.message = message

\* verify_key.verify(message.encode(), signature=bytes.fromhex(signature)):
\* the outcomes the statement can have.  bytes.fromhex raises ValueError on a
\* non-hex string; a signature that is not 64 bytes is refused by the library
\* with its own ValueError or, in releases without the length check, fails
\* the cryptographic check.
verify(public_key, message, signature) ==
  CASE signature.form = "nonhex" -> {"ValueError"}
    [] signature.form = "badlen" -> {"nacl.exceptions.ValueError", "BadSignatureError"}
    [] OTHER -> IF SignatureMatches(public_key, message, signature)
                  THEN {"Ok"}
                  ELSE {"BadSignatureError"}

(***************************************************************************)
(* Responses.  A response body is a JSON string or a JSON object; one      *)
(* record shape holds both.                                                *)
(***************************************************************************)
\* 'flags': 4096
SuppressNotifications == 4096

JString(text) == [json |-> "string", text |-> text, type |-> 0, content |-> "", flags |-> 0]

JPong == [json |-> "object", text |-> "", type |-> 1, content |-> "", flags |-> 0]

JMessage(content) ==
  [json |-> "object", text |-> "", type |-> 4, content |-> content,
   flags |-> SuppressNotifications]

JNull == [json |-> "null", text |-> "", type |-> 0, content |-> "", flags |-> 0]

\* A returned dict {'statusCode': ..., 'body': json.dumps(...)}.
Response(statusCode, body) ==
  [kind |-> "response", statusCode |-> statusCode, body |-> body, exc |-> ""]

\* An exception that leaves lambda_handler (the re-raise of line 71, or an
\* exception of line 28, which is outside the try).
Raised(exc) == [kind |-> "raised", statusCode |-> 0, body |-> JNull, exc |-> exc]

NoResult == [kind |-> "none", statusCode |-> 0, body |-> JNull, exc |-> ""]

InvalidSignatureResponse == Response(401, JString("invalid request signature"))

PongResponse == Response(200, JPong)

UnhandledTypeResponse == Response(400, JString("unhandled request type"))

UnhandledCommandResponse == Response(400, JString("Unhandled command"))

\* A slip: the acknowledgment is built without the flags entry.
AckResponse_NoFlags(success_message) ==
  Response(200, [JMessage(success_message) EXCEPT !.flags = 0])

\* The return statement of invoke_lambda_function.
AckResponse(success_message) == Response(200, JMessage(success_message))

(***************************************************************************)
(* command_handler                                                         *)
(***************************************************************************)
\* The acknowledgment texts (Japanese in the source, transliterated here).
StartingMessage == "saabaa wo kidou shiteimasu..."

StoppingMessage == "saabaa wo teishi shiteimasu..."

StatusMessage == "saabaa suteetasu wo shutoku shiteimasu..."

NoTarget == [found |-> FALSE, function_name |-> "", success_message |-> ""]

Target(function_name, success_message) ==
  [found |-> TRUE, function_name |-> function_name, success_message |-> success_message]

\* command = body['data']['name']; action = body["data"]["options"][0]["value"]
\* with the exception a missing key or an empty list raises.
ReadCommand(doc) ==
  LET d == doc.data
      fail(e) == [exc |-> e, command |-> "", action |-> ""]
  IN  CASE ~d.present -> fail("KeyError")
        [] ~d.hasName -> fail("KeyError")
        [] ~d.hasOptions -> fail("KeyError")
        [] d.options = <<>> -> fail("IndexError")
        [] ~d.options[1].hasValue -> fail("KeyError")
        [] OTHER -> [exc |-> "", command |-> d.name, action |-> d.options[1].value]

\* A slip: the start and stop branches invoke each other's function.
Dispatch_Swapped(command, action) ==
  IF command = "server"
    THEN CASE action = "start" -> Target("discord-stop-instance", StartingMessage)
           [] action = "stop" -> Target("discord-start-instance", StoppingMessage)
           [] action = "status" -> Target("discord-check-instance", StatusMessage)
           [] OTHER -> NoTarget
    ELSE NoTarget

\* action.lower()
Lower(action) == IF action = "Start" THEN "start" ELSE action

\* A slip: the action is compared case-insensitively and the command name
\* is not checked.
Dispatch_Lenient(command, action) ==
  CASE Lower(action) = "start" -> Target("discord-start-instance", StartingMessage)
    [] Lower(action) = "stop" -> Target("discord-stop-instance", StoppingMessage)
    [] Lower(action) = "status" -> Target("discord-check-instance", StatusMessage)
    [] OTHER -> NoTarget

\* The if/elif table of command_handler: the worker to invoke and the
\* message to acknowledge with, or no target (fall through to the 400).
Dispatch(command, action) ==
  IF command = "server"
    THEN CASE action = "start" -> Target("discord-start-instance", StartingMessage)
           [] action = "stop" -> Target("discord-stop-instance", StoppingMessage)
           [] action = "status" -> Target("discord-check-instance", StatusMessage)
           [] OTHER -> NoTarget
    ELSE NoTarget

\* A slip: InvocationType="RequestResponse", a synchronous call that returns
\* when the execution has ended.
InvokeReturns_RequestResponse(status) == status \in {"succeeded", "failed"}

\* boto3.client("lambda").invoke(FunctionName=..., InvocationType="Event"):
\* the call returns as soon as the event is queued; it never waits for the
\* execution it queued.  TRUE when the call can return given the execution's
\* status.
InvokeReturns(status) == TRUE

\* The outcomes of the trigger call: the event is accepted and queued, or the
\* call is refused with an error and nothing is queued.
InvokeOutcomes == {"accepted", "ClientError"}

\* The outcomes of decrypt_env_varibles: the plaintext, a KMS error (wrapped
\* in RuntimeError), or a missing environment variable.
DecryptOutcomes == {"plaintext", "RuntimeError", "KeyError"}

(***************************************************************************)
(* State                                                                   *)
(***************************************************************************)
VARIABLES
  pc,           \* the statement the gateway invocation is at
  event,        \* the event being handled
  public_key,   \* local of lambda_handler
  body,         \* local of lambda_handler: the parsed payload
  target,       \* arguments of invoke_lambda_function
  result,       \* what lambda_handler returned or raised
  steps,        \* the statements this invocation has executed, in order
  invocations,  \* the worker executions triggered so far
  nreq          \* events delivered so far

\* The state of the worker executions and of the instance they act on.
VARIABLES
  workers,      \* the locals of each worker execution that has started
  instance      \* the compute instance: its state and public address

wvars == <<workers, instance>>

vars ==
  <<pc, event, public_key, body, target, result, steps, invocations, nreq,
    workers, instance>>

\* The instance as the compute-control API describes it.  Only a running
\* instance has a public address, and not every running instance has one.
Instance(state, address) == [state |-> state, address |-> address]

RunningInstance == Instance("running", "10.0.0.5")

InstanceStates ==
  {RunningInstance, Instance("running", "None"), Instance("stopping", "None"),
   Instance("stopped", "None"), Instance("pending", "None")}

\* The locals of one worker execution.  calls is the sequence of external
\* calls it has made, each with whether it returned (ok) or raised.
NotStarted ==
  [kind |-> "", pc |-> "idle", instance_id |-> "", discord_webhook_url |-> "",
   instance_running |-> FALSE, state |-> "", public_ip |-> "",
   data |-> [content |-> <<>>, flags |-> 0], posted |-> <<>>,
   res |-> <<>>, exc |-> "", calls |-> <<>>]

Init ==
  /\ pc = "idle"
  /\ event = NoEvent
  /\ public_key = NoKey
  /\ body = EmptyDoc
  /\ target = NoTarget
  /\ result = NoResult
  /\ steps = <<>>
  /\ invocations = <<>>
  /\ nreq = 0
  /\ workers = [i \in 1..MaxRequests |-> NotStarted]
  /\ instance = RunningInstance

\* lambda_handler ends: it returns r or r is raised out of it.
Finish(r) ==
  /\ pc' = "done"
  /\ result' = r

\* The runtime delivers an event: a fresh, stateless gateway invocation.
Receive ==
  /\ pc \in {"idle", "done"}
  /\ nreq < MaxRequests
  /\ \E e \in Events : event' = e
  /\ nreq' = nreq + 1
  /\ pc' = "decrypt"
  /\ public_key' = NoKey
  /\ body' = EmptyDoc
  /\ target' = NoTarget
  /\ result' = NoResult
  /\ steps' = <<>>
  /\ UNCHANGED invocations
  /\ UNCHANGED wvars

\* public_key = decrypt_env_varibles()   (outside the try block)
DecryptEnv ==
  /\ pc = "decrypt"
  /\ steps' = Append(steps, "decrypt")
  /\ \E o \in DecryptOutcomes :
       IF o = "plaintext"
         THEN /\ \E k \in ConfiguredKeys : public_key' = k
              /\ pc' = "loads"
              /\ UNCHANGED result
         ELSE /\ Finish(Raised(o))
              /\ UNCHANGED public_key
  /\ UNCHANGED <<event, body, target, invocations, nreq>>
  /\ UNCHANGED wvars

\* body = json.loads(event['body'])
LoadBody ==
  /\ pc = "loads"
  /\ steps' = Append(steps, "json.loads")
  /\ LET r == json_loads(event.body)
     IN  IF r.ok
           THEN /\ body' = r.value
                /\ pc' = "headers"
                /\ UNCHANGED result
           ELSE /\ Finish(Raised(r.exc))
                /\ UNCHANGED body
  /\ UNCHANGED <<event, public_key, target, invocations, nreq>>
  /\ UNCHANGED wvars

\* signature = event['headers'][...]; timestamp = event['headers'][...]
ReadHeaders ==
  /\ pc = "headers"
  /\ steps' = Append(steps, "headers")
  /\ IF event.hasSignature /\ event.hasTimestamp
       THEN /\ pc' = "key"
            /\ UNCHANGED result
       ELSE Finish(Raised("KeyError"))
  /\ UNCHANGED <<event, public_key, body, target, invocations, nreq>>
  /\ UNCHANGED wvars

\* verify_key = VerifyKey(bytes.fromhex(public_key))
MakeVerifyKey ==
  /\ pc = "key"
  /\ steps' = Append(steps, "VerifyKey")
  /\ IF VerifyKey(public_key) = ""
       THEN /\ pc' = "verify"
            /\ UNCHANGED result
       ELSE Finish(Raised(VerifyKey(public_key)))
  /\ UNCHANGED <<event, public_key, body, target, invocations, nreq>>
  /\ UNCHANGED wvars

\* message = timestamp + event['body']; verify_key.verify(...) in its
\* try/except BadSignatureError
Verify ==
  /\ pc = "verify"
  /\ \E o \in verify(public_key, Concat(event.timestamp, event.body), event.signature) :
       CASE o = "Ok" -> /\ pc' = "route"
                        /\ steps' = Append(steps, "verify:Ok")
                        /\ UNCHANGED result
         [] o = "BadSignatureError" -> /\ Finish(InvalidSignatureResponse)
                                       /\ steps' = Append(steps, "verify:BadSignatureError")
         [] OTHER -> /\ Finish(Raised(o))
                     /\ steps' = Append(steps, "verify:error")
  /\ UNCHANGED <<event, public_key, body, target, invocations, nreq>>
  /\ UNCHANGED wvars

\* A slip: the else branch hands every type other than 1 to command_handler.
InteractionKind_ElseCommand(doc) ==
  CASE ~doc.hasType -> "KeyError"
    [] doc.hasType /\ doc.type = 1 -> "PING"
    [] OTHER -> "APPLICATION_COMMAND"

\* The branch the if/elif/else on body["type"] takes (KeyError when the
\* payload has no type).
InteractionKind(doc) ==
  CASE ~doc.hasType -> "KeyError"
    [] doc.hasType /\ doc.type = 1 -> "PING"
    [] doc.hasType /\ doc.type = 2 -> "APPLICATION_COMMAND"
    [] OTHER -> "unhandled"

\* if body["type"] == 1 ... elif body["type"] == 2 ... else ...
Route ==
  /\ pc = "route"
  /\ steps' = Append(steps, "route")
  /\ LET k == InteractionKind(body)
     IN  CASE k = "KeyError" -> /\ Finish(Raised("KeyError"))
                                /\ UNCHANGED target
           [] k = "PING" -> /\ Finish(PongResponse)
                            /\ UNCHANGED target
           [] k = "APPLICATION_COMMAND" -> /\ pc' = "command"
                                           /\ UNCHANGED <<result, target>>
           [] OTHER -> /\ Finish(UnhandledTypeResponse)
                       /\ UNCHANGED target
  /\ UNCHANGED <<event, public_key, body, invocations, nreq>>
  /\ UNCHANGED wvars

\* command_handler(body) up to the call of invoke_lambda_function
CommandHandler ==
  /\ pc = "command"
  /\ steps' = Append(steps, "command_handler")
  /\ LET c == ReadCommand(body)
         t == Dispatch(c.command, c.action)
     IN  CASE c.exc # "" -> /\ Finish(Raised(c.exc))
                            /\ UNCHANGED target
           [] c.exc = "" /\ t.found -> /\ target' = t
                                       /\ pc' = "invoke"
                                       /\ UNCHANGED result
           [] OTHER -> /\ Finish(UnhandledCommandResponse)
                       /\ UNCHANGED target
  /\ UNCHANGED <<event, public_key, body, invocations, nreq>>
  /\ UNCHANGED wvars

\* A worker execution queued by the trigger call.
Invocation(req, function_name) ==
  [req |-> req, FunctionName |-> function_name, status |-> "queued"]

\* The executions request req triggered.
InvocationsOf(req) == {i \in 1..Len(invocations) : invocations[i].req = req}

\* boto3.client("lambda").invoke(...) is issued.
InvokeCall ==
  /\ pc = "invoke"
  /\ steps' = Append(steps, "invoke")
  /\ \E o \in InvokeOutcomes :
       IF o = "accepted"
         THEN /\ invocations' = Append(invocations, Invocation(nreq, target.function_name))
              /\ pc' = "invoking"
              /\ UNCHANGED result
         ELSE /\ Finish(Raised(o))
              /\ UNCHANGED invocations
  /\ UNCHANGED <<event, public_key, body, target, nreq>>
  /\ UNCHANGED wvars

\* The invoke call returns and invoke_lambda_function returns its dict.
InvokeReturn ==
  /\ pc = "invoking"
  /\ \A i \in InvocationsOf(nreq) : InvokeReturns(invocations[i].status)
  /\ steps' = Append(steps, "return")
  /\ Finish(AckResponse(target.success_message))
  /\ UNCHANGED <<event, public_key, body, target, invocations, nreq>>
  /\ UNCHANGED wvars

(***************************************************************************)
(* Worker executions, in their own execution contexts.                     *)
(***************************************************************************)
SetStatus(i, status) ==
  /\ invocations' = [invocations EXCEPT ![i].status = status]
  /\ UNCHANGED <<pc, event, public_key, body, target, result, steps, nreq>>
  /\ UNCHANGED wvars

\* The platform starts the worker's lambda_handler.
WorkerStart ==
  \E i \in 1..Len(invocations) :
    /\ invocations[i].status = "queued"
    /\ SetStatus(i, "running")

\* The worker's lambda_handler returns.
WorkerReturn ==
  \E i \in 1..Len(invocations) :
    /\ invocations[i].status = "running"
    /\ SetStatus(i, "succeeded")

\* The worker's lambda_handler raises (configuration, KMS, EC2 or webhook error).
WorkerRaise ==
  \E i \in 1..Len(invocations) :
    /\ invocations[i].status = "running"
    /\ SetStatus(i, "failed")

Next ==
  \/ Receive
  \/ DecryptEnv
  \/ LoadBody
  \/ ReadHeaders
  \/ MakeVerifyKey
  \/ Verify
  \/ Route
  \/ CommandHandler
  \/ InvokeCall
  \/ InvokeReturn
  \/ WorkerStart
  \/ WorkerReturn
  \/ WorkerRaise

Spec == Init /\ [][Next]_vars

(***************************************************************************)
(* Vocabulary of the properties                                            *)
(***************************************************************************)
\* The application's real public key, as configured in a working deployment.
ApplicationKey == Key("hex32")

\* The gateway invocation has ended.
Done == pc = "done"

\* The key was decrypted and is the application's key.
KeyAvailable == public_key = ApplicationKey

\* Statement s has been executed by the current gateway invocation.
Executed(s) == \E i \in 1..Len(steps) : steps[i] = s

\* e carries a 64-byte hex signature and a timestamp.
WellFormedSignature(e) ==
  /\ e.hasSignature
  /\ e.hasTimestamp
  /\ e.signature.form = "hex64"

\* e's signature is the application's signature over timestamp || raw body.
CorrectlySigned(e) ==
  /\ WellFormedSignature(e)
  /\ e.signature.signer = "discord"
  /\ e.signature.message = [timestamp |-> e.timestamp, body |-> e.body]

\* e's signature is well formed and fails the cryptographic check.
FailsVerification(e) == WellFormedSignature(e) /\ ~CorrectlySigned(e)

\* e's body is JSON text.
Parseable(e) == e.body.kind = "json"

\* No worker execution was triggered by the current request.
NoInvocation == InvocationsOf(nreq) = {}

\* Exactly one worker execution was triggered by the current request, of
\* function fn.
ExactlyOne(fn) ==
  /\ Cardinality(InvocationsOf(nreq)) = 1
  /\ \A i \in InvocationsOf(nreq) : invocations[i].FunctionName = fn

Is401 ==
  /\ result.kind = "response"
  /\ result.statusCode = 401
  /\ result.body.json = "string"
  /\ result.body.text = "invalid request signature"

(***************************************************************************)
(* C1.  Every event whose signature fails the cryptographic check over     *)
(* timestamp || raw body is answered 401 "invalid request signature"; the  *)
(* router is never entered and no worker is invoked.                       *)
(* The statement fails: the body is parsed before the signature is         *)
(* checked, so a body that is not JSON ends in an exception, not in 401.   *)
(***************************************************************************)
C1_BadSignatureIs401 ==
  (KeyAvailable /\ FailsVerification(event))
    => /\ ~Executed("route")
       /\ NoInvocation
       /\ Done => Is401

(***************************************************************************)
(* C2.  Signature checking has a single failure outcome: a signature or    *)
(* public key that is missing, not hex, of the wrong length or not         *)
(* matching ends in the 401 response, never in an exception.               *)
(* The statement fails: only BadSignatureError is caught.                  *)
(***************************************************************************)
C2_SingleFailureOutcome ==
  (Done /\ public_key # NoKey /\ Parseable(event)
     /\ ~(KeyAvailable /\ CorrectlySigned(event)))
    => Is401

\* The outcomes lines 33-43 can have for the signature material alone.
VerificationOutcomes(e, key) ==
  IF ~(e.hasSignature /\ e.hasTimestamp)
    THEN {Raised("KeyError")}
    ELSE IF VerifyKey(key) # ""
      THEN {Raised(VerifyKey(key))}
      ELSE {IF o = "BadSignatureError" THEN InvalidSignatureResponse ELSE Raised(o) :
              o \in verify(key, [timestamp |-> e.timestamp, body |-> e.body], e.signature)
                      \ {"Ok"}}

\* What the caller can tell of an outcome: the response, or that the
\* invocation failed (not which exception it was).
Observable(r) == IF r.kind = "raised" THEN Raised("error") ELSE r

(***************************************************************************)
(* C3.  Verification comes strictly before any step that depends on the    *)
(* payload: with invalid signature material the outcome is decided by the  *)
(* signature material alone, the same for every body, parseable or not.    *)
(* The statement fails: json.loads runs first and its failure decides the  *)
(* outcome.                                                                *)
(***************************************************************************)
C3_OutcomeIndependentOfBody ==
  (Done /\ public_key # NoKey /\ ~(KeyAvailable /\ CorrectlySigned(event)))
    => Observable(result) \in {Observable(r) : r \in VerificationOutcomes(event, public_key)}

\* The payload of e (the empty document when the body does not parse).
Payload(e) == json_loads(e.body).value

\* e is a request the gateway authenticates: the key is available, the
\* signature is the application's over timestamp || raw body, the body is JSON.
Authentic(e) == KeyAvailable /\ CorrectlySigned(e) /\ Parseable(e)

\* e is an authentic interaction of type t.
AuthenticOfType(e, t) ==
  /\ Authentic(e)
  /\ Payload(e).hasType
  /\ Payload(e).type = t

\* e is an authentic application command whose name and first option value
\* can be read.
AuthenticCommand(e) ==
  /\ AuthenticOfType(e, 2)
  /\ ReadCommand(Payload(e)).exc = ""

CommandOf(e) == ReadCommand(Payload(e)).command

ActionOf(e) == ReadCommand(Payload(e)).action

\* The trigger call was refused (an error of the invocation service).
TriggerRefused == result = Raised("ClientError")

\* result is the 200 reply {type: 4, data: {content, flags: 4096}}.
IsAck(content) ==
  /\ result.kind = "response"
  /\ result.statusCode = 200
  /\ result.body.json = "object"
  /\ result.body.type = 4
  /\ result.body.content = content
  /\ result.body.flags = 4096

\* result is a 400 with the given text.
Is400(text) ==
  /\ result.kind = "response"
  /\ result.statusCode = 400
  /\ result.body.json = "string"
  /\ result.body.text = text

(***************************************************************************)
(* C4.  A correctly signed event of type 1 is answered exactly 200         *)
(* {type: 1}, whatever its other fields, and triggers no worker.           *)
(***************************************************************************)
C4_PingIsPong ==
  AuthenticOfType(event, 1)
    => /\ NoInvocation
       /\ Done => /\ result.kind = "response"
                  /\ result.statusCode = 200
                  /\ result.body = [json |-> "object", text |-> "", type |-> 1,
                                    content |-> "", flags |-> 0]

\* A signed ping that also carries command data has been answered.
C4_Witness ==
  /\ Done
  /\ AuthenticOfType(event, 1)
  /\ Payload(event).data = Data("server", <<Opt("start")>>)
  /\ result = PongResponse

(***************************************************************************)
(* C5.  A correctly signed type 2 event with name "server" and first       *)
(* option value "start" is answered 200 {type: 4} with the "starting"      *)
(* message, and exactly one execution, of the Start worker, is triggered   *)
(* (when the trigger call is not refused by the invocation service).       *)
(***************************************************************************)
C5_StartIsAcknowledged ==
  (AuthenticCommand(event) /\ CommandOf(event) = "server" /\ ActionOf(event) = "start")
    => /\ \A i \in InvocationsOf(nreq) :
            invocations[i].FunctionName = "discord-start-instance"
       /\ Cardinality(InvocationsOf(nreq)) <= 1
       /\ (Done /\ ~TriggerRefused)
            => /\ IsAck(StartingMessage)
               /\ ExactlyOne("discord-start-instance")

\* A start command has been acknowledged and its one execution is queued.
C5_Witness ==
  /\ Done
  /\ AuthenticCommand(event)
  /\ CommandOf(event) = "server"
  /\ ActionOf(event) = "start"
  /\ IsAck(StartingMessage)
  /\ ExactlyOne("discord-start-instance")

(***************************************************************************)
(* C6.  For a correctly signed type 2 event: "stop" with name "server"     *)
(* triggers exactly the Stop worker, "status" exactly the Status worker,   *)
(* each with its own message; every other action value (case variants and *)
(* prefixes included) and every other command name is answered 400         *)
(* "Unhandled command" and triggers nothing.                               *)
(***************************************************************************)
C6_StopStatusAndRejection ==
  AuthenticCommand(event)
    => LET c == CommandOf(event)
           a == ActionOf(event)
       IN  /\ (c = "server" /\ a = "stop")
                => /\ \A i \in InvocationsOf(nreq) :
                        invocations[i].FunctionName = "discord-stop-instance"
                   /\ (Done /\ ~TriggerRefused)
                        => /\ IsAck(StoppingMessage)
                           /\ ExactlyOne("discord-stop-instance")
           /\ (c = "server" /\ a = "status")
                => /\ \A i \in InvocationsOf(nreq) :
                        invocations[i].FunctionName = "discord-check-instance"
                   /\ (Done /\ ~TriggerRefused)
                        => /\ IsAck(StatusMessage)
                           /\ ExactlyOne("discord-check-instance")
           /\ ~(c = "server" /\ a \in {"start", "stop", "status"})
                => /\ NoInvocation
                   /\ Done => Is400("Unhandled command")
           /\ Cardinality({StartingMessage, StoppingMessage, StatusMessage}) = 3

\* An earlier stop command triggered the Stop worker, and now a command
\* with the case variant "Start" has been rejected.
C6_Witness ==
  /\ Done
  /\ AuthenticCommand(event)
  /\ CommandOf(event) = "server"
  /\ ActionOf(event) = "Start"
  /\ result = UnhandledCommandResponse
  /\ \E i \in 1..Len(invocations) :
       /\ invocations[i].req < nreq
       /\ invocations[i].FunctionName = "discord-stop-instance"

(***************************************************************************)
(* C7.  A correctly signed event whose type is a value outside {1, 2} is   *)
(* answered 400 "unhandled request type", whatever its data, and triggers  *)
(* no worker.                                                              *)
(***************************************************************************)
C7_OtherTypeIs400 ==
  (Authentic(event) /\ Payload(event).hasType /\ Payload(event).type \notin {1, 2})
    => /\ NoInvocation
       /\ ~Executed("command_handler")
       /\ Done => Is400("unhandled request type")

\* A signed type 3 event that carries a valid start command was rejected.
C7_Witness ==
  /\ Done
  /\ AuthenticOfType(event, 3)
  /\ Payload(event).data = Data("server", <<Opt("start")>>)
  /\ result = UnhandledTypeResponse

(***************************************************************************)
(* C8.  Fire-and-forget: once the trigger has been issued the gateway can  *)
(* return at once, whatever the worker is doing (not started, running,     *)
(* ended, failed), and the response it returns is the acknowledgment       *)
(* {type: 4, data: {content: ackMessage, flags: 4096}} in all those cases: *)
(* nothing of the worker flows back into it.                               *)
(***************************************************************************)
C8_FireAndForget ==
  /\ pc = "invoking" => ENABLED InvokeReturn
  /\ (Done /\ Executed("return"))
       => IsAck(target.success_message)

\* The acknowledgment has been returned while the worker it triggered has
\* not started, and the worker of an earlier request has failed.
C8_Witness ==
  /\ Done
  /\ IsAck(target.success_message)
  /\ \E i \in InvocationsOf(nreq) : invocations[i].status = "queued"
  /\ \E i \in 1..Len(invocations) :
       invocations[i].req < nreq /\ invocations[i].status = "failed"

(***************************************************************************)
(* C9 as stated.  invoke_lambda_function always returns the 200 reply      *)
(* {type: 4, data: {content: ackMessage, flags}}.                          *)
(* It fails: when the trigger call errors, the function raises.            *)
(***************************************************************************)
C9_AlwaysReturnsSuccess ==
  (Done /\ Executed("invoke")) => IsAck(target.success_message)

(***************************************************************************)
(* C9 as amended.  invoke_lambda_function returns the 200 reply            *)
(* {type: 4, data: {content: ackMessage, flags: 4096}} whenever the        *)
(* trigger call is accepted, and then exactly one execution of the target  *)
(* exists for the request, whatever becomes of it; when the trigger call   *)
(* is refused the error leaves the gateway (no response is built) and no   *)
(* worker execution exists for the request.                                *)
(***************************************************************************)
C9_ReturnsSuccessUnlessRefused ==
  (Done /\ Executed("invoke"))
    => \/ /\ Executed("return")
          /\ IsAck(target.success_message)
          /\ ExactlyOne(target.function_name)
       \/ /\ ~Executed("return")
          /\ result.kind = "raised"
          /\ result.exc = "ClientError"
          /\ NoInvocation

\* The acknowledgment was returned and the worker it triggered later failed.
C9_Witness ==
  /\ Done
  /\ Executed("return")
  /\ IsAck(target.success_message)
  /\ \E i \in InvocationsOf(nreq) : invocations[i].status = "failed"

\* The five responses of the response table.
TableResponses ==
  {InvalidSignatureResponse, PongResponse, UnhandledTypeResponse,
   UnhandledCommandResponse}
    \cup {AckResponse(m) : m \in {StartingMessage, StoppingMessage, StatusMessage}}

(***************************************************************************)
(* C10.  Every gateway-path error becomes an HTTP response: the gateway    *)
(* ends with one of the five responses of the table and never in an        *)
(* unhandled failure, also for a malformed command payload.  Stated here   *)
(* for correctly signed type 2 events in a working environment.            *)
(* It fails: a type 2 payload without data, name, options or value raises  *)
(* KeyError or IndexError, which line 71 re-raises.                        *)
(***************************************************************************)
C10_EveryErrorIsAResponse ==
  (Done /\ AuthenticOfType(event, 2) /\ ~TriggerRefused) => result \in TableResponses

(***************************************************************************)
(* The workers: src/lambda_func/discord_stop_instance.py (Stop) and        *)
(* src/lambda_func/discord_check_instance.py (Status).  Every execution    *)
(* has its own locals; all of them act on the one instance.                *)
(***************************************************************************)
\* Longest record of external calls kept for one execution.
MaxCalls == 8

\* The decrypted configuration values.
InstanceId == "i-123"

WebhookUrl == "https://discord.com/api/webhooks/1/token"

\* The handler a function name runs ("" for a function not modelled here).
KindOf(function_name) ==
  CASE function_name = "discord-stop-instance" -> "stop"
    [] function_name = "discord-check-instance" -> "check"
    [] OTHER -> ""

\* A slip: the Stop worker sends its notification before it calls stop.
After_NotifyFirst(kind, at) ==
  IF kind = "stop"
    THEN CASE at = "env" -> "kms"
           [] at = "kms" -> "post"
           [] at = "post" -> "ec2"
           [] at = "ec2" -> "loop"
           [] OTHER -> "returned"
    ELSE CASE at = "env" -> "kms"
           [] at = "kms" -> "ec2"
           [] at = "ec2" -> "post"
           [] OTHER -> "returned"

\* A slip: the loop is never left.
After_NeverLeavesLoop(kind, at) ==
  CASE at = "env" -> "kms"
    [] at = "kms" -> "ec2"
    [] at = "ec2" -> IF kind = "stop" THEN "loop" ELSE "post"
    [] at = "loop" -> "loop"
    [] OTHER -> "returned"

\* The statements of a handler in source order: the statement that follows
\* a statement when it completes without raising.
After(kind, at) ==
  CASE at = "env" -> "kms"
    [] at = "kms" -> "ec2"
    [] at = "ec2" -> IF kind = "stop" THEN "loop" ELSE "post"
    [] at = "loop" -> "post"
    [] OTHER -> "returned"

\* A slip: a failed POST is attempted again.
AfterFailure_RetryPost(kind, at) == IF at = "post" THEN "post" ELSE "failed"

\* A slip: a failure of the preamble is logged and the handler carries on.
AfterFailure_IgnorePreamble(kind, at) ==
  IF at \in {"env", "kms"} THEN After(kind, at) ELSE "failed"

\* A slip: a failure of the control-API call is logged and the handler
\* carries on.
AfterFailure_IgnoreEc2(kind, at) ==
  IF at \in {"ec2", "loop"} THEN After(kind, at) ELSE "failed"

\* Where a handler goes when the statement at `at` raises: every except
\* clause raises again, so the execution fails.
AfterFailure(kind, at) == "failed"

\* A slip: the flag starts True, so the loop polls until Stopped is read.
instance_running_initial_True == TRUE

\* instance_running = False   (the value the while loop first tests)
instance_running_initial == FALSE

\* A slip: the executions are serialised, one at a time.
CanBegin_OneAtATime(i) ==
  \A j \in 1..MaxRequests : workers[j].pc \in {"idle", "returned", "failed"}

\* The platform may start a queued execution whatever other executions are
\* doing: the handlers take no lock.
CanBegin(i) == TRUE

\* f"..." of the Stop worker's notification, as its parts.
StopContent(instance_id) ==
  <<"insutansu [", instance_id, "] ga teishi shimashita">>

\* A slip: a module-level cache that survives warm invocations; a later
\* execution reports that nothing changed since the last one.
StatusContent_Cached(instance_id, state, public_ip) ==
  IF \E j \in 1..MaxRequests :
       workers[j].kind = "check" /\ workers[j].posted # <<>>
    THEN <<"insutansu [", instance_id, "] wa kawarimasen">>
    ELSE CASE state = "running" ->
                <<"insutansu [", instance_id, "] wa kidouzumi desu\r", public_ip>>
           [] state = "stopped" ->
                <<"insutansu [", instance_id, "] wa teishi shiteimasu">>
           [] OTHER ->
                <<"insutansu [", instance_id, "] no suteetasu wa ", state, " desu">>

\* A slip: the branches on state are lost and every state is echoed.
StatusContent_EchoOnly(instance_id, state, public_ip) ==
  <<"insutansu [", instance_id, "] no suteetasu wa ", state, " desu">>

\* The content the Status worker builds for a described state.
StatusContent(instance_id, state, public_ip) ==
  CASE state = "running" ->
         <<"insutansu [", instance_id, "] wa kidouzumi desu\r", public_ip>>
    [] state = "stopped" ->
         <<"insutansu [", instance_id, "] wa teishi shiteimasu">>
    [] OTHER ->
         <<"insutansu [", instance_id, "] no suteetasu wa ", state, " desu">>

\* res of the Status worker.
StatusRes(state, public_ip) ==
  IF state = "running" THEN <<state, " ", public_ip>> ELSE <<state>>

\* {"content": ..., "flags": 4096}
NotificationData(content) == [content |-> content, flags |-> 4096]

\* ec2.stop_instances on the instance: a running or pending instance begins
\* to stop and loses its address; otherwise nothing changes.
StopEffect(inst) ==
  IF inst.state \in {"running", "pending"} THEN Instance("stopping", "None") ELSE inst

\* The outcomes of the external calls.
EnvironOutcomes == {"ok", "KeyError"}

KmsOutcomes == {"ok", "first fails", "second fails"}

Ec2Outcomes == {"ok", "ClientError"}

\* requests.post returns a response for any HTTP status (the handlers do not
\* look at it) and raises RequestException on a transport failure.
PostOutcomes == {"delivered", "http error", "RequestException"}

Call(name, ok) == [call |-> name, ok |-> ok]

Log(calls, c) == IF Len(calls) < MaxCalls THEN Append(calls, c) ELSE calls

\* The executions that have been started.
Started == {i \in 1..Len(invocations) : workers[i].pc # "idle"}

\* Execution i, now with locals w, has completed the statement at w.pc.
Advance(i, w) ==
  LET next == After(w.kind, w.pc)
  IN  /\ workers' = [workers EXCEPT ![i] = [w EXCEPT !.pc = next]]
      /\ invocations' =
           IF next = "returned"
             THEN [invocations EXCEPT ![i].status = "succeeded"]
             ELSE invocations

\* The statement at w.pc of execution i has raised exc.
Fail(i, w, exc) ==
  LET next == AfterFailure(w.kind, w.pc)
  IN  /\ workers' =
           [workers EXCEPT ![i] =
              IF next = "failed" THEN [w EXCEPT !.pc = next, !.exc = exc]
                                 ELSE [w EXCEPT !.pc = next]]
      /\ invocations' =
           CASE next = "failed" -> [invocations EXCEPT ![i].status = "failed"]
             [] next = "returned" -> [invocations EXCEPT ![i].status = "succeeded"]
             [] OTHER -> invocations

gvars == <<pc, event, public_key, body, target, result, steps, nreq>>

\* The platform starts the handler of a queued execution.
Begin(i) ==
  /\ invocations[i].status = "queued"
  /\ KindOf(invocations[i].FunctionName) # ""
  /\ CanBegin(i)
  /\ workers' = [workers EXCEPT ![i] =
                   [NotStarted EXCEPT !.kind = KindOf(invocations[i].FunctionName),
                                      !.pc = "env"]]
  /\ invocations' = [invocations EXCEPT ![i].status = "running"]
  /\ UNCHANGED <<gvars, instance>>

WorkerBegin == \E i \in 1..Len(invocations) : Begin(i)

\* os.environ["INSTANCE_ID"], os.environ["DISCORD_WEBHOOK_URL"]
ReadEnviron ==
  \E i \in Started :
    /\ workers[i].pc = "env"
    /\ \E o \in EnvironOutcomes :
         LET w == [workers[i] EXCEPT !.calls = Log(@, Call("os.environ", o = "ok"))]
         IN  IF o = "ok" THEN Advance(i, w) ELSE Fail(i, w, "ValueError")
    /\ UNCHANGED <<gvars, instance>>

\* The two kms_client.decrypt calls.
DecryptSecrets ==
  \E i \in Started :
    /\ workers[i].pc = "kms"
    /\ \E o \in KmsOutcomes :
         LET first == Log(workers[i].calls, Call("kms.decrypt", o # "first fails"))
             both == Log(first, Call("kms.decrypt", o = "ok"))
         IN  CASE o = "ok" ->
                    Advance(i, [workers[i] EXCEPT !.calls = both,
                                                  !.instance_id = InstanceId,
                                                  !.discord_webhook_url = WebhookUrl])
               [] o = "first fails" ->
                    Fail(i, [workers[i] EXCEPT !.calls = first], "RuntimeError: KMS")
               [] OTHER ->
                    Fail(i, [workers[i] EXCEPT !.calls = both,
                                               !.instance_id = InstanceId],
                         "RuntimeError: KMS")
    /\ UNCHANGED <<gvars, instance>>

\* Stop worker: ec2.stop_instances(...); instance_running = False
StopInstances ==
  \E i \in Started :
    /\ workers[i].kind = "stop"
    /\ workers[i].pc = "ec2"
    /\ \E o \in Ec2Outcomes :
         LET w == [workers[i] EXCEPT
                     !.calls = Log(@, Call("ec2.stop_instances", o = "ok"))]
         IN  IF o = "ok"
               THEN /\ instance' = StopEffect(instance)
                    /\ Advance(i, [w EXCEPT !.instance_running = instance_running_initial])
               ELSE /\ Fail(i, w, "RuntimeError: EC2")
                    /\ UNCHANGED instance
    /\ UNCHANGED gvars

\* Stop worker: one test of `while instance_running:` and, when it is true,
\* one pass of the loop body (describe, then leave or sleep).
StopLoop ==
  \E i \in Started :
    /\ workers[i].kind = "stop"
    /\ workers[i].pc = "loop"
    /\ IF workers[i].instance_running
         THEN \E o \in Ec2Outcomes :
                LET w == [workers[i] EXCEPT
                            !.calls = Log(@, Call("ec2.describe_instances", o = "ok"))]
                IN  CASE o # "ok" -> Fail(i, w, "RuntimeError: EC2")
                      [] o = "ok" /\ instance.state = "stopped" ->
                           /\ workers' = [workers EXCEPT ![i] =
                                [w EXCEPT !.state = instance.state,
                                          !.instance_running = FALSE]]
                           /\ UNCHANGED invocations
                      [] OTHER ->
                           /\ workers' = [workers EXCEPT ![i] =
                                [w EXCEPT !.state = instance.state,
                                          !.calls = Log(@, Call("time.sleep", TRUE))]]
                           /\ UNCHANGED invocations
         ELSE Advance(i, workers[i])
    /\ UNCHANGED <<gvars, instance>>

\* Status worker: ec2.describe_instances(...) and the if/elif/else on state
DescribeInstances ==
  \E i \in Started :
    /\ workers[i].kind = "check"
    /\ workers[i].pc = "ec2"
    /\ \E o \in Ec2Outcomes :
         LET w == [workers[i] EXCEPT
                     !.calls = Log(@, Call("ec2.describe_instances", o = "ok"))]
             ip == IF instance.state = "running" THEN instance.address ELSE ""
         IN  IF o = "ok"
               THEN Advance(i, [w EXCEPT
                      !.state = instance.state,
                      !.public_ip = ip,
                      !.data = NotificationData(
                                 StatusContent(w.instance_id, instance.state, ip)),
                      !.res = StatusRes(instance.state, ip)])
               ELSE Fail(i, w, "RuntimeError: EC2")
    /\ UNCHANGED <<gvars, instance>>

\* requests.post(discord_webhook_url, json=data) and the return statement
PostWebhook ==
  \E i \in Started :
    /\ workers[i].pc = "post"
    /\ \E o \in PostOutcomes :
         LET data == IF workers[i].kind = "stop"
                       THEN NotificationData(StopContent(workers[i].instance_id))
                       ELSE workers[i].data
             w == [workers[i] EXCEPT
                     !.calls = Log(@, Call("requests.post", o # "RequestException")),
                     !.data = data,
                     !.posted = Log(@, [content |-> data.content, flags |-> data.flags,
                                        outcome |-> o])]
         IN  IF o = "RequestException"
               THEN Fail(i, w, "RuntimeError: Webhook")
               ELSE Advance(i, IF w.kind = "stop" THEN [w EXCEPT !.res = <<"-">>] ELSE w)
    /\ UNCHANGED <<gvars, instance>>

\* The instance changes on its own or by someone else's hand: a stopping
\* instance stops, a stopped one is started, a pending one comes up.
InstanceChanges ==
  /\ instance' =
       CASE instance.state = "stopping" -> Instance("stopped", "None")
         [] instance.state = "stopped" -> Instance("pending", "None")
         [] instance.state = "pending" -> RunningInstance
         [] OTHER -> Instance("stopping", "None")
  /\ UNCHANGED <<gvars, invocations, workers>>

\* Signed stop and status commands, and a stop command signed with another key.
StopBody == Raw(Doc(2, Data("server", <<Opt("stop")>>)), FALSE)

StatusBody == Raw(Doc(2, Data("server", <<Opt("status")>>)), FALSE)

CommandEvents ==
  {MakeEvent(StopBody, "valid"), MakeEvent(StatusBody, "valid"),
   MakeEvent(StopBody, "wrongkey")}

\* The runtime delivers one of the command events to the gateway.
ReceiveFrom(events) ==
  /\ pc \in {"idle", "done"}
  /\ nreq < MaxRequests
  /\ \E e \in events : event' = e
  /\ nreq' = nreq + 1
  /\ pc' = "decrypt"
  /\ public_key' = NoKey
  /\ body' = EmptyDoc
  /\ target' = NoTarget
  /\ result' = NoResult
  /\ steps' = <<>>
  /\ UNCHANGED <<invocations, workers, instance>>

ReceiveCommand == ReceiveFrom(CommandEvents)

WorkerInit ==
  /\ pc = "idle"
  /\ event = NoEvent
  /\ public_key = NoKey
  /\ body = EmptyDoc
  /\ target = NoTarget
  /\ result = NoResult
  /\ steps = <<>>
  /\ invocations = <<>>
  /\ nreq = 0
  /\ workers = [i \in 1..MaxRequests |-> NotStarted]
  /\ instance \in InstanceStates

\* The steps of the worker executions.
WorkerStep ==
  \/ WorkerBegin
  \/ ReadEnviron
  \/ DecryptSecrets
  \/ StopInstances
  \/ StopLoop
  \/ DescribeInstances
  \/ PostWebhook

WorkerNext ==
  \/ ReceiveCommand
  \/ DecryptEnv
  \/ LoadBody
  \/ ReadHeaders
  \/ MakeVerifyKey
  \/ Verify
  \/ Route
  \/ CommandHandler
  \/ InvokeCall
  \/ InvokeReturn
  \/ WorkerBegin
  \/ ReadEnviron
  \/ DecryptSecrets
  \/ StopInstances
  \/ StopLoop
  \/ DescribeInstances
  \/ PostWebhook
  \/ InstanceChanges

WorkerSpec == WorkerInit /\ [][WorkerNext]_vars

(***************************************************************************)
(* Vocabulary of the worker properties                                     *)
(***************************************************************************)
\* The positions in calls of the calls of the given name and outcome.
Calls(w, name, ok) == {k \in 1..Len(w.calls) : w.calls[k] = Call(name, ok)}

\* The positions of all calls of the given name.
AnyCalls(w, name) == Calls(w, name, TRUE) \cup Calls(w, name, FALSE)

\* The started executions of a kind.
StartedOf(kind) == {i \in Started : workers[i].kind = kind}

\* The execution has ended: it returned or it raised.
Terminal(w) == w.pc \in {"returned", "failed"}

\* s is one of the parts of the content.
Contains(content, s) == \E k \in 1..Len(content) : content[k] = s

\* The control-API call a kind of worker makes first.
ControlCall(kind) ==
  IF kind = "stop" THEN "ec2.stop_instances" ELSE "ec2.describe_instances"

(***************************************************************************)
(* C11.  Stop worker: the "instance has stopped" notification is sent      *)
(* exactly once and only after a state read has returned Stopped; polling  *)
(* ends at the first such read.                                            *)
(* It fails: instance_running starts False, the loop is never entered and  *)
(* the notification is sent with no state read at all.                     *)
(***************************************************************************)
C11_NotifiedAfterStoppedRead ==
  \A i \in StartedOf("stop") :
    LET w == workers[i]
    IN  AnyCalls(w, "requests.post") # {}
          => /\ Cardinality(AnyCalls(w, "requests.post")) = 1
             /\ w.state = "stopped"
             /\ \E d \in Calls(w, "ec2.describe_instances", TRUE) :
                  \A p \in AnyCalls(w, "requests.post") : d < p

(***************************************************************************)
(* C12.  Within one worker execution the steps are totally ordered: the    *)
(* control-API call (stop for the Stop worker, describe for the Status     *)
(* worker) comes before any state poll, every state poll comes before the  *)
(* notification POST, and the POST is never made before the control-API    *)
(* call has returned successfully.                                         *)
(***************************************************************************)
C12_ControlThenPollThenNotify ==
  \A i \in Started :
    LET w == workers[i]
        control == Calls(w, ControlCall(w.kind), TRUE)
        polls == AnyCalls(w, "ec2.describe_instances")
        posts == AnyCalls(w, "requests.post")
    IN  /\ \A p \in posts : \E c \in control : c < p
        /\ \A d \in polls : \A p \in posts : d < p
        /\ w.kind = "stop"
             => \A d \in polls : \E c \in control : c < d
        /\ w.pc = "post" => control # {}

\* A Stop execution and a Status execution have both notified, each after
\* its control call.
C12_Witness ==
  \E i \in StartedOf("stop"), j \in StartedOf("check") :
    /\ workers[i].pc = "returned"
    /\ workers[j].pc = "returned"
    /\ Calls(workers[i], "ec2.stop_instances", TRUE) # {}
    /\ Calls(workers[j], "ec2.describe_instances", TRUE) # {}
    /\ Calls(workers[i], "requests.post", TRUE) # {}
    /\ Calls(workers[j], "requests.post", TRUE) # {}

(***************************************************************************)
(* C13.  Status worker: exactly one state read, no polling, then one       *)
(* notification whose content is chosen by the state read: running ->      *)
(* the instance id and the public address; stopped -> says stopped, no     *)
(* address; any other state -> echoes the raw state string.                *)
(***************************************************************************)
C13_StatusContentByState ==
  \A i \in StartedOf("check") :
    LET w == workers[i]
    IN  /\ Cardinality(AnyCalls(w, "ec2.describe_instances")) <= 1
        /\ AnyCalls(w, "time.sleep") = {}
        /\ Len(w.posted) <= 1
        /\ w.posted # <<>>
             => /\ Cardinality(Calls(w, "ec2.describe_instances", TRUE)) = 1
                /\ w.posted[1].flags = 4096
                /\ Contains(w.posted[1].content, "i-123")
                /\ w.state = "running"
                     => Contains(w.posted[1].content, w.public_ip)
                /\ w.state = "stopped"
                     => /\ Contains(w.posted[1].content, "] wa teishi shiteimasu")
                        /\ \A a \in {"10.0.0.5", "None", ""} :
                             ~Contains(w.posted[1].content, a)
                /\ w.state \notin {"running", "stopped"}
                     => Contains(w.posted[1].content, w.state)
        /\ w.pc = "returned" => Len(w.posted) = 1

\* One Status execution reported a running instance with its address and
\* another one an instance that is neither running nor stopped.
C13_Witness ==
  \E i \in StartedOf("check"), j \in StartedOf("check") :
    /\ workers[i].pc = "returned"
    /\ workers[i].state = "running"
    /\ Contains(workers[i].posted[1].content, "10.0.0.5")
    /\ workers[j].pc = "returned"
    /\ workers[j].state = "pending"
    /\ Contains(workers[j].posted[1].content, "pending")

(***************************************************************************)
(* C14.  The Status worker is idempotent and read-only: it never changes   *)
(* the instance, and two executions that read the same instance state      *)
(* send notifications with the same content.                               *)
(***************************************************************************)
C14_SameReadSameContent ==
  \A i \in StartedOf("check"), j \in StartedOf("check") :
    LET v == workers[i]
        w == workers[j]
    IN  /\ \A k \in 1..Len(w.calls) :
             w.calls[k].call \in {"os.environ", "kms.decrypt",
                                  "ec2.describe_instances", "requests.post"}
        /\ (/\ v.posted # <<>>
            /\ w.posted # <<>>
            /\ v.state = w.state
            /\ v.public_ip = w.public_ip)
             => /\ v.posted[1].content = w.posted[1].content
                /\ v.posted[1].flags = w.posted[1].flags
                /\ v.res = w.res

\* A step of a Status execution leaves the instance as it is.
C14_StatusStepReadsOnly ==
  \A i \in 1..MaxRequests :
    (workers'[i] # workers[i] /\ workers'[i].kind = "check")
      => instance' = instance

C14_StatusIdempotentReadOnly ==
  /\ []C14_SameReadSameContent
  /\ [][C14_StatusStepReadsOnly]_vars

\* Two Status executions have read the same state of the instance and both
\* have sent their notification.
C14_Witness ==
  \E i \in StartedOf("check"), j \in StartedOf("check") :
    /\ i # j
    /\ workers[i].posted # <<>>
    /\ workers[j].posted # <<>>
    /\ workers[i].state = "running"
    /\ workers[j].state = "running"
    /\ workers[i].public_ip = workers[j].public_ip
    /\ workers[i].posted[1].content = workers[j].posted[1].content

(***************************************************************************)
(* C15.  Stop worker: when the notification POST fails the execution       *)
(* ends as failed; the stop already issued stays issued (it was called     *)
(* once, nothing undoes it) and the notification is not retried.           *)
(***************************************************************************)
C15_FailedPostIsFatal ==
  \A i \in StartedOf("stop") :
    LET w == workers[i]
    IN  Calls(w, "requests.post", FALSE) # {}
          => /\ w.pc = "failed"
             /\ w.exc = "RuntimeError: Webhook"
             /\ invocations[i].status = "failed"
             /\ Cardinality(AnyCalls(w, "requests.post")) = 1
             /\ Len(w.posted) = 1
             /\ Cardinality(Calls(w, "ec2.stop_instances", TRUE)) = 1
             /\ \A k \in 1..Len(w.calls) :
                  w.calls[k].call # "ec2.start_instances"
             /\ w.calls[Len(w.calls)] = Call("requests.post", FALSE)

\* A Stop execution has failed at the POST while the instance it told to
\* stop is stopping.
C15_Witness ==
  \E i \in StartedOf("stop") :
    /\ workers[i].pc = "failed"
    /\ workers[i].exc = "RuntimeError: Webhook"
    /\ Calls(workers[i], "ec2.stop_instances", TRUE) # {}
    /\ instance.state = "stopping"

(***************************************************************************)
(* C16.  In the current code the Stop worker's polling loop never runs:    *)
(* it makes no state read and no sleep, and sends the "stopped"            *)
(* notification right after the stop call.                                 *)
(***************************************************************************)
C16_StopNeverPolls ==
  \A i \in StartedOf("stop") :
    LET w == workers[i]
    IN  /\ AnyCalls(w, "ec2.describe_instances") = {}
        /\ AnyCalls(w, "time.sleep") = {}
        /\ w.state = ""
        /\ \A p \in AnyCalls(w, "requests.post") :
             /\ p > 1
             /\ w.calls[p - 1] = Call("ec2.stop_instances", TRUE)
        /\ w.posted # <<>>
             => w.posted[1].content = <<"insutansu [", "i-123", "] ga teishi shimashita">>

\* A Stop execution has delivered the "stopped" notification and returned
\* while the instance is still stopping.
C16_Witness ==
  \E i \in StartedOf("stop") :
    /\ workers[i].pc = "returned"
    /\ workers[i].posted # <<>>
    /\ workers[i].posted[1].outcome = "delivered"
    /\ workers[i].res = <<"-">>
    /\ instance.state = "stopping"

(***************************************************************************)
(* C17.  A failure in a worker's preamble (reading the environment,        *)
(* decrypting the secrets) is fatal: the execution ends as failed and      *)
(* neither a control-API call nor a notification is made.                  *)
(***************************************************************************)
C17_PreambleFailureIsFatal ==
  \A i \in Started :
    LET w == workers[i]
        failures == Calls(w, "os.environ", FALSE) \cup Calls(w, "kms.decrypt", FALSE)
    IN  /\ failures # {}
          => /\ w.pc = "failed"
             /\ w.exc \in {"ValueError", "RuntimeError: KMS"}
             /\ invocations[i].status = "failed"
             /\ failures = {Len(w.calls)}
             /\ \A k \in 1..Len(w.calls) :
                  w.calls[k].call \in {"os.environ", "kms.decrypt"}
             /\ w.posted = <<>>
        /\ w.exc \in {"ValueError", "RuntimeError: KMS"} => failures # {}

\* One execution failed reading the environment and another one at the
\* second decryption.
C17_Witness ==
  \E i \in StartedOf("stop"), j \in StartedOf("check") :
    /\ workers[i].pc = "failed"
    /\ workers[i].exc = "ValueError"
    /\ workers[i].calls = <<Call("os.environ", FALSE)>>
    /\ workers[j].pc = "failed"
    /\ workers[j].exc = "RuntimeError: KMS"
    /\ Calls(workers[j], "kms.decrypt", TRUE) # {}

(***************************************************************************)
(* C18.  An error from a control-API call (stop or describe) is fatal:     *)
(* the call is not retried and no notification is sent.                    *)
(***************************************************************************)
C18_ControlFailureIsFatal ==
  \A i \in Started :
    LET w == workers[i]
        failures == Calls(w, "ec2.stop_instances", FALSE)
                      \cup Calls(w, "ec2.describe_instances", FALSE)
    IN  /\ failures # {}
          => /\ w.pc = "failed"
             /\ w.exc = "RuntimeError: EC2"
             /\ invocations[i].status = "failed"
             /\ failures = {Len(w.calls)}
             /\ AnyCalls(w, "requests.post") = {}
             /\ w.posted = <<>>
        /\ w.exc = "RuntimeError: EC2" => failures # {}

\* A Stop execution failed at the stop call and a Status execution at the
\* describe call.
C18_Witness ==
  \E i \in StartedOf("stop"), j \in StartedOf("check") :
    /\ workers[i].pc = "failed"
    /\ workers[i].calls[Len(workers[i].calls)] = Call("ec2.stop_instances", FALSE)
    /\ workers[j].pc = "failed"
    /\ workers[j].calls[Len(workers[j].calls)] = Call("ec2.describe_instances", FALSE)
    /\ instance = RunningInstance

(***************************************************************************)
(* C19.  Concurrent stop commands: each accepted stop command gets its     *)
(* own Stop execution, no execution waits for another, each execution      *)
(* that runs through makes its own stop call and sends its own             *)
(* notification, and no step of the gateway touches the instance.          *)
(***************************************************************************)
C19_OwnExecutionEach ==
  /\ \A i \in 1..Len(invocations), j \in 1..Len(invocations) :
       i # j => invocations[i].req # invocations[j].req
  /\ \A i \in 1..Len(invocations) :
       (invocations[i].status = "queued"
         /\ invocations[i].FunctionName = "discord-stop-instance")
         => ENABLED Begin(i)
  /\ \A i \in StartedOf("stop") :
       LET w == workers[i]
       IN  /\ Cardinality(AnyCalls(w, "ec2.stop_instances")) <= 1
           /\ Cardinality(AnyCalls(w, "requests.post")) <= 1
           /\ w.pc = "returned"
                => /\ Cardinality(Calls(w, "ec2.stop_instances", TRUE)) = 1
                   /\ Cardinality(Calls(w, "requests.post", TRUE)) = 1
                   /\ Len(w.posted) = 1
  /\ (Done /\ IsAck(StoppingMessage)) => ExactlyOne("discord-stop-instance")

\* A step of the gateway leaves the instance as it is.
C19_GatewayStepLeavesInstance ==
  (pc' # pc \/ steps' # steps \/ result' # result) => instance' = instance

C19_ConcurrentStops ==
  /\ []C19_OwnExecutionEach
  /\ [][C19_GatewayStepLeavesInstance]_vars

\* Two Stop executions are under way at once: both have made their stop
\* call and neither has sent its notification yet.
C19_Witness ==
  \E i \in StartedOf("stop"), j \in StartedOf("stop") :
    /\ i # j
    /\ workers[i].pc = "post"
    /\ workers[j].pc = "post"
    /\ Calls(workers[i], "ec2.stop_instances", TRUE) # {}
    /\ Calls(workers[j], "ec2.stop_instances", TRUE) # {}

(***************************************************************************)
(* Stop commands only, with worker executions whose steps are eventually   *)
(* taken: every external call returns or fails, and the platform runs      *)
(* what it has started.  Nothing obliges the instance to change.           *)
(***************************************************************************)
StopCommandEvents == {MakeEvent(StopBody, "valid"), MakeEvent(StopBody, "wrongkey")}

ReceiveStopCommand == ReceiveFrom(StopCommandEvents)

StopWorkerInit ==
  /\ WorkerInit
  /\ instance = RunningInstance

\* The steps of the Stop worker executions.
StopWorkerStep ==
  \/ WorkerBegin
  \/ ReadEnviron
  \/ DecryptSecrets
  \/ StopInstances
  \/ StopLoop
  \/ PostWebhook

StopWorkerNext ==
  \/ ReceiveStopCommand
  \/ DecryptEnv
  \/ LoadBody
  \/ ReadHeaders
  \/ MakeVerifyKey
  \/ Verify
  \/ Route
  \/ CommandHandler
  \/ InvokeCall
  \/ InvokeReturn
  \/ StopWorkerStep
  \/ InstanceChanges

FairStopWorkerSpec ==
  StopWorkerInit /\ [][StopWorkerNext]_vars /\ WF_vars(StopWorkerStep)

(***************************************************************************)
(* C20.  Every Stop worker execution eventually ends: it has attempted     *)
(* the notification and returned "-", or it has raised a fatal error;      *)
(* also when the instance never reports Stopped.                           *)
(***************************************************************************)
C20_StopWorkerTerminates ==
  \A i \in 1..MaxRequests :
    (workers[i].kind = "stop" /\ workers[i].pc # "idle")
      ~> (\/ /\ workers[i].pc = "returned"
             /\ workers[i].res = <<"-">>
             /\ AnyCalls(workers[i], "requests.post") # {}
          \/ /\ workers[i].pc = "failed"
             /\ workers[i].exc # "")

\* One Stop execution has returned "-" and another one has raised, and the
\* instance has not reached Stopped.
C20_Witness ==
  \E i \in StartedOf("stop"), j \in StartedOf("stop") :
    /\ workers[i].pc = "returned"
    /\ workers[i].res = <<"-">>
    /\ workers[j].pc = "failed"
    /\ instance.state # "stopped"

====
